---- MODULE Spec2Model ----
(***************************************************************************)
(* Engine orchestration layer of chess-scoring-analyze:                    *)
(*   src/lib/stockfish.ts   StockfishEngine, MultiVersionStockfish         *)
(*   src/unnamed/part_000   GeminiChessAI                                  *)
(*                                                                         *)
(* JavaScript runs one synchronous segment at a time.  Every action below  *)
(* is one such segment: the code from a call (or from the resumption after *)
(* an await, or from a timer / message callback) up to the next await.     *)
(* Evaluations are kept in hundredths of a pawn (the engine's centipawns), *)
(* so `parseInt(x) / 100` is the integer x and the threshold 1.5 is 150.   *)
(* The `time` field of a result (wall-clock milliseconds) is not modelled. *)
(***************************************************************************)
EXTENDS Integers, Sequences, FiniteSets, TLC

VARIABLES
  registry,   \* MultiVersionStockfish.engines : version -> engine object (0: absent)
  engines,    \* the StockfishEngine objects constructed so far
  workers,    \* the engine processes started so far (the objects behind this.engine)
  searches,   \* the closures created by analyzePosition's promise executor
  calls,      \* the asynchronous calls in flight or finished (one frame each)
  ops,        \* synchronous pool operations (terminate, terminateAll) performed
  pure        \* the last application of a pure function: its arguments and result
              \* (in SpecRoundTrip: the script the deterministic engine follows)

vars == <<registry, engines, workers, searches, calls, ops, pure>>

----------------------------------------------------------------------------
(* Bounds of the model *)

MaxCalls == 3        \* asynchronous calls started in one behaviour
MaxWorkers == 3      \* engine processes started in one behaviour
MaxOps == 2          \* terminate / terminateAll calls in one behaviour
MaxInfo == 2         \* progress lines the engine writes per `go`
MaxSearchCalls == 2  \* asynchronous calls in one behaviour of SpecSearch

Versions == {"17", "16"}
VersionOrder == <<"17", "16">>

----------------------------------------------------------------------------
(* Lines of the engine protocol.  A line is the result of                  *)
(* message.split(' '): a sequence of tokens.  A token is a word (n = 0) or *)
(* a numeral (s = "#") whose parseInt value is n.                          *)

W(word) == [s |-> word, n |-> 0]
N(num) == [s |-> "#", n |-> num]

InfoLines ==
  { <<W("info"), W("depth"), N(1), W("score"), W("mate"), N(3), W("nodes"), N(100),
      W("pv"), W("e2e4"), W("e7e5")>>,
    <<W("info"), W("depth"), N(2), W("score"), W("cp"), N(-150), W("nodes"), N(200),
      W("pv"), W("d2d4")>>,
    <<W("info"), W("currmove"), W("e2e4")>> }

BestMoves == {"e2e4"}

BestmoveLine(mv) == <<W("bestmove"), W(mv)>>

OtherLines == { <<W("readyok")>> }

\* parseInt(parts[i]); parts[i] undefined or not a numeral gives NaN, which no
\* line of InfoLines produces: every keyword that is parsed is followed by a numeral.
ParseInt(parts, i) == IF i <= Len(parts) /\ parts[i].s = "#" THEN parts[i].n ELSE 0

Tok(parts, i) == IF i <= Len(parts) THEN parts[i].s ELSE ""

Words(parts) == [k \in 1..Len(parts) |-> parts[k].s]

\* A mate score whose negative branch adds the distance to the magnitude.
MateEvalFarther(mate) == IF mate > 0 THEN (10000 - mate) * 100 ELSE (-10000 + mate) * 100

\* evaluation = mate > 0 ? 10000 - mate : -10000 - mate   (pawns -> hundredths)
MateEval(mate) == IF mate > 0 THEN (10000 - mate) * 100 ELSE (-10000 - mate) * 100

\* The for-loop of the info branch, from token i (1-based) on, over the
\* accumulator a = [evaluation, depthReached, nodes, pv, mate].
RECURSIVE ParseInfo(_, _, _)
ParseInfo(parts, i, a) ==
  IF i > Len(parts) THEN a
  ELSE IF parts[i].s = "depth"
    THEN ParseInfo(parts, i + 1, [a EXCEPT !.depthReached = ParseInt(parts, i + 1)])
  ELSE IF parts[i].s = "nodes"
    THEN ParseInfo(parts, i + 1, [a EXCEPT !.nodes = ParseInt(parts, i + 1)])
  ELSE IF parts[i].s = "score"
    THEN IF Tok(parts, i + 1) = "mate"
           THEN ParseInfo(parts, i + 1,
                  [a EXCEPT !.mate = <<ParseInt(parts, i + 2)>>,
                            !.evaluation = MateEval(ParseInt(parts, i + 2))])
         ELSE IF Tok(parts, i + 1) = "cp"
           THEN ParseInfo(parts, i + 1, [a EXCEPT !.evaluation = ParseInt(parts, i + 2)])
         ELSE ParseInfo(parts, i + 1, a)
  ELSE IF parts[i].s = "pv"
    THEN [a EXCEPT !.pv = SubSeq(Words(parts), i + 1, Len(parts))]
  ELSE ParseInfo(parts, i + 1, a)

----------------------------------------------------------------------------
(* The program state as one value, so that the helpers below can be        *)
(* composed the way the code composes its calls.                           *)

Cur == [registry |-> registry, engines |-> engines, workers |-> workers,
        searches |-> searches, calls |-> calls]

Commit(s) ==
  /\ registry' = s.registry
  /\ engines' = s.engines
  /\ workers' = s.workers
  /\ searches' = s.searches
  /\ calls' = s.calls

Cmd(op) == [op |-> op, fen |-> "", depth |-> 0]
PositionCmd(fen) == [op |-> "position fen", fen |-> fen, depth |-> 0]
GoCmd(depth) == [op |-> "go depth", fen |-> "", depth |-> depth]

\* engine.postMessage(cmd).  The process answers every `go` it receives
\* before `quit` with at most MaxInfo `info` lines and one `bestmove` line
\* (go counts the bestmove lines owed, info the info lines it may still write).
PostMessage(s, w, cmd) ==
  [s EXCEPT !.workers[w] =
     [@ EXCEPT !.cmds = Append(@, cmd),
               !.go = IF cmd.op = "go depth" /\ ~s.workers[w].quit THEN @ + 1 ELSE @,
               !.info = IF cmd.op = "go depth" /\ ~s.workers[w].quit THEN @ + MaxInfo ELSE @,
               !.quit = @ \/ cmd.op = "quit"]]

RECURSIVE PostAll(_, _, _)
PostAll(s, w, cmds) ==
  IF cmds = <<>> THEN s ELSE PostAll(PostMessage(s, w, Head(cmds)), w, Tail(cmds))

\* new StockfishEngine(version).  inits, initFailed and terminated are
\* history: the number of initialize() invocations, whether one of them ended
\* in its catch block, and whether terminate() was ever called.
NewEngine(version) ==
  [version |-> version, isReady |-> FALSE, engine |-> 0,
   inits |-> 0, initFailed |-> FALSE, terminated |-> FALSE]

NewWorker == [onmessage |-> 0, cmds |-> <<>>, go |-> 0, info |-> 0, quit |-> FALSE]

HandshakeCmds ==
  << Cmd("uci"), Cmd("setoption name Threads value 4"),
     Cmd("setoption name Hash value 256"), Cmd("setoption name Ponder value false"),
     Cmd("ucinewgame") >>

\* initialize() up to `await import('stockfish')`: nothing is assigned yet
\* (inits counts the invocations of initialize on the object).
InitializeBegin(s, e) == [s EXCEPT !.engines[e].inits = @ + 1]

\* initialize() after the import settled.  ok: a constructor was found and
\* StockfishEngine() returned a process; otherwise the catch block ran.
InitializeResume(s, e, ok) ==
  IF ok
    THEN LET w == Len(s.workers) + 1
             s1 == [s EXCEPT !.workers = Append(@, NewWorker),
                             !.engines[e].engine = w,
                             !.engines[e].isReady = TRUE]
         IN PostAll(s1, w, HandshakeCmds)
    ELSE [s EXCEPT !.engines[e].isReady = FALSE, !.engines[e].initFailed = TRUE]

\* A terminate() that sends quit and leaves isReady as it was.
TerminateKeepsReady(s, e) ==
  IF s.engines[e].engine # 0
    THEN [PostMessage(s, s.engines[e].engine, Cmd("quit"))
            EXCEPT !.engines[e].terminated = TRUE]
    ELSE [s EXCEPT !.engines[e].terminated = TRUE]

\* terminate()
Terminate(s, e) ==
  IF s.engines[e].engine # 0
    THEN [PostMessage(s, s.engines[e].engine, Cmd("quit"))
            EXCEPT !.engines[e].isReady = FALSE, !.engines[e].terminated = TRUE]
    ELSE [s EXCEPT !.engines[e].terminated = TRUE]

\* terminateAll(): engines.forEach(terminate), then engines.clear().
RECURSIVE TerminateEach(_, _)
TerminateEach(s, vs) ==
  IF vs = <<>> THEN s
  ELSE LET e == s.registry[Head(vs)]
       IN TerminateEach(IF e # 0 THEN Terminate(s, e) ELSE s, Tail(vs))

\* A terminateAll that forgets engines.clear().
TerminateAllKeepsRegistry(s) == TerminateEach(s, VersionOrder)

TerminateAll(s) ==
  [TerminateEach(s, VersionOrder) EXCEPT !.registry = [v \in Versions |-> 0]]

----------------------------------------------------------------------------
(* StockfishEngine.analyzePosition: the promise executor and its callbacks *)

NoResult ==
  [bestMove |-> "", evaluation |-> 0, depth |-> 0, nodes |-> 0, pv |-> <<>>, mate |-> <<>>]

\* The closure of one executor run: the captured engineInstance (worker), the
\* request, the timer, the accumulator, and the promise (status, result).
\* cause is history: what settled the promise.
NewSearch(s, e, fen, depth) ==
  [eng |-> e, worker |-> s.engines[e].engine, fen |-> fen, depth |-> depth,
   timer |-> "armed",
   bestMove |-> "", evaluation |-> 0, depthReached |-> 0, nodes |-> 0,
   pv |-> <<>>, mate |-> <<>>,
   status |-> "pending", result |-> NoResult,
   cause |-> "none"]

Snapshot(q) ==
  [bestMove |-> q.bestMove, evaluation |-> q.evaluation, depth |-> q.depthReached,
   nodes |-> q.nodes, pv |-> q.pv, mate |-> q.mate]

\* resolve({...}): the first call settles the promise, later calls do nothing.
Resolve(s, sid, cause) ==
  IF s.searches[sid].status = "pending"
    THEN [s EXCEPT !.searches[sid].status = "resolved",
                   !.searches[sid].result = Snapshot(s.searches[sid]),
                   !.searches[sid].cause = cause]
    ELSE s

ClearTimeout(s, sid) ==
  IF s.searches[sid].timer = "armed" THEN [s EXCEPT !.searches[sid].timer = "cleared"] ELSE s

\* The executor, lines 105-184, when this.engine is an object: arm the timer,
\* install the handler, send `position fen` and `go depth`.
Execute(s, e, fen, depth) ==
  LET sid == Len(s.searches) + 1
      w == s.engines[e].engine
      s1 == [s EXCEPT !.searches = Append(@, NewSearch(s, e, fen, depth)),
                      !.workers[w].onmessage = sid]
  IN PostAll(s1, w, << PositionCmd(fen), GoCmd(depth) >>)

\* A timeout that resolves with the initial values instead of the accumulator.
TimeoutFiresLosesProgress(s, sid) ==
  LET s1 == [s EXCEPT !.searches[sid].timer = "fired"]
      s2 == IF s.searches[sid].worker # 0
              THEN PostMessage(s1, s.searches[sid].worker, Cmd("stop")) ELSE s1
  IN IF s2.searches[sid].status = "pending"
       THEN [s2 EXCEPT !.searches[sid].status = "resolved",
                       !.searches[sid].result = NoResult,
                       !.searches[sid].cause = "timeout"]
       ELSE s2

\* setTimeout callback, lines 114-127.
TimeoutFires(s, sid) ==
  LET q == s.searches[sid]
      s1 == [s EXCEPT !.searches[sid].timer = "fired"]
      s2 == IF q.worker # 0 THEN PostMessage(s1, q.worker, Cmd("stop")) ELSE s1
  IN Resolve(s2, sid, "timeout")

\* The `bestmove` branch of the handler, lines 132-143.
OnBestmove(s, sid, parts) ==
  LET s1 == ClearTimeout(s, sid)
      s2 == [s1 EXCEPT !.searches[sid].bestMove = Tok(parts, 2)]
  IN Resolve(s2, sid, "bestmove")

\* The depth limit reached without telling the engine to stop.
OnDepthReachedNoStop(s, sid) == Resolve(ClearTimeout(s, sid), sid, "depth")

\* `if (depthReached >= depth)`, lines 165-179.
OnDepthReached(s, sid) ==
  LET q == s.searches[sid]
      s1 == ClearTimeout(s, sid)
      s2 == IF s1.engines[q.eng].engine # 0
              THEN PostMessage(s1, s1.engines[q.eng].engine, Cmd("stop"))
              ELSE s1
  IN Resolve(s2, sid, "depth")

\* The `info` branch of the handler, lines 144-180.
OnInfo(s, sid, parts) ==
  LET q == s.searches[sid]
      a == ParseInfo(parts, 1,
             [evaluation |-> q.evaluation, depthReached |-> q.depthReached,
              nodes |-> q.nodes, pv |-> q.pv, mate |-> q.mate])
      s1 == [s EXCEPT !.searches[sid] =
               [@ EXCEPT !.evaluation = a.evaluation, !.depthReached = a.depthReached,
                         !.nodes = a.nodes, !.pv = a.pv, !.mate = a.mate]]
  IN IF a.depthReached >= q.depth THEN OnDepthReached(s1, sid) ELSE s1

\* this.engine.onmessage, lines 129-181: the handler of the search that
\* installed it last, whether or not that search has settled.
OnMessage(s, w, parts) ==
  LET sid == s.workers[w].onmessage
  IN IF Tok(parts, 1) = "bestmove" THEN OnBestmove(s, sid, parts)
     ELSE IF Tok(parts, 1) = "info" THEN OnInfo(s, sid, parts)
     ELSE s

----------------------------------------------------------------------------
(* Move classification and game summary *)

Abs(x) == IF x < 0 THEN -x ELSE x

\* classifyMove with the tier boundaries exclusive.
ClassifyMoveExclusive(evaluation, moveIndex) ==
  LET absEval == Abs(evaluation)
  IN IF absEval > 300 THEN {"blunder"}
     ELSE IF absEval > 150 THEN {"mistake"}
     ELSE IF absEval > 50 THEN {"inaccuracy"}
     ELSE IF absEval <= 10 THEN {"best"}
     ELSE IF absEval <= 20 /\ moveIndex > 10 THEN {"brilliant"}
     ELSE {}

\* classifyMove, lines 250-272: the set of flags of the returned object.
\* Thresholds 3, 1.5, 0.5, 0.1, 0.2 pawns in hundredths.
ClassifyMove(evaluation, moveIndex) ==
  LET absEval == Abs(evaluation)
  IN IF absEval >= 300 THEN {"blunder"}
     ELSE IF absEval >= 150 THEN {"mistake"}
     ELSE IF absEval >= 50 THEN {"inaccuracy"}
     ELSE IF absEval <= 10 THEN {"best"}
     ELSE IF absEval <= 20 /\ moveIndex > 10 THEN {"brilliant"}
     ELSE {}

\* A PositionAnalysis: { fen, move, analysis: [result], ...flags }.
PositionAnalysis(fen, move, result, flags) ==
  [fen |-> fen, move |-> move, analysis |-> <<result>>, flags |-> flags]

\* analyses.filter((_, i) => i % 2 === r), i counted from 0.
RECURSIVE FilterParity(_, _, _)
FilterParity(analyses, k, r) ==
  IF k > Len(analyses) THEN <<>>
  ELSE (IF (k - 1) % 2 = r THEN <<analyses[k]>> ELSE <<>>) \o FilterParity(analyses, k + 1, r)

Accurate(m) == "blunder" \notin m.flags /\ "mistake" \notin m.flags
Critical(m) == "blunder" \in m.flags \/ "brilliant" \in m.flags

\* moves.filter(m => !m.blunder && !m.mistake).length
RECURSIVE CountAccurate(_)
CountAccurate(moves) ==
  IF moves = <<>> THEN 0
  ELSE (IF Accurate(Head(moves)) THEN 1 ELSE 0) + CountAccurate(Tail(moves))

\* analyses.filter(a => a.blunder || a.brilliant).length
RECURSIVE CountCritical(_)
CountCritical(moves) ==
  IF moves = <<>> THEN 0
  ELSE (IF Critical(Head(moves)) THEN 1 ELSE 0) + CountCritical(Tail(moves))

\* calculateAccuracy, part_000 lines 525-530.  The number returned is the
\* fraction num / den (exact; the code rounds it to a double).
CalculateAccuracy(moves) ==
  IF Len(moves) = 0 THEN [num |-> 0, den |-> 1]
  ELSE [num |-> CountAccurate(moves) * 100, den |-> Len(moves)]

\* generateGameSummary, part_000 lines 505-523 (the computed fields).
GenerateGameSummary(analyses) ==
  [whiteAccuracy |-> CalculateAccuracy(FilterParity(analyses, 1, 0)),
   blackAccuracy |-> CalculateAccuracy(FilterParity(analyses, 1, 1)),
   criticalMoments |-> CountCritical(analyses)]

----------------------------------------------------------------------------
(* chess.js, as far as the code uses it.  A FEN is named by a string; the  *)
(* tables give what `new Chess(fen)` yields for it: the pieces on the board*)
(* (FEN letters, upper case White), the legal moves in the order           *)
(* chess.moves() lists them, and the position a move leads to.             *)

StartBoard ==
  << "r", "n", "b", "q", "k", "b", "n", "r", "p", "p", "p", "p", "p", "p", "p", "p",
     "P", "P", "P", "P", "P", "P", "P", "P", "R", "N", "B", "Q", "K", "B", "N", "R" >>

Board(fen) ==
  CASE fen = "kqk" -> << "k", "Q", "K" >>
    [] fen = "krpk" -> << "k", "r", "p", "K" >>
    [] OTHER -> StartBoard

Moves(fen) ==
  CASE fen = "start" -> << "a3", "a4", "b3", "b4", "c3", "c4", "e4", "d4" >>
    [] fen = "1.e4" -> << "a6", "a5", "b6", "b5", "c6", "e5", "d5" >>
    [] fen = "1.e4 e5" -> << "a3", "a4", "Nf3", "Nc3" >>
    [] fen = "kqk" -> << "Qa1", "Qa2", "Qa3", "Kb1", "Kb2", "Kc2" >>
    [] fen = "krpk" -> << "Ka1", "Kb1" >>
    [] fen = "krpk Kb1" -> << "Rb8", "Kc7" >>
    [] OTHER -> << >>

\* The moves the permissive parser of chess.move accepts in a position.
Accepted(fen) ==
  { Moves(fen)[k] : k \in 1..Len(Moves(fen)) } \cup
  (IF fen = "start" THEN {"e2e4", "d2d4"} ELSE {})

\* chess.fen() after chess.move(san), for an accepted move.
PlayMove(fen, san) ==
  CASE fen = "start" /\ san = "e4" -> "1.e4"
    [] fen = "1.e4" /\ san = "e5" -> "1.e4 e5"
    [] fen = "1.e4 e5" /\ san = "Nf3" -> "2.Nf3"
    [] fen = "krpk" /\ san = "Kb1" -> "krpk Kb1"
    [] fen = "krpk Kb1" /\ san = "Rb8" -> "krpk Kb1 Rb8"
    [] fen = "odds" /\ san = "e4" -> "odds 1.e4"
    [] fen = "odds 1.e4" /\ san = "e5" -> "odds 1.e4 e5"
    [] OTHER -> "other"

\* A game from the standard position ("odds": the same moves in a game at
\* rook odds) and one from a set-up endgame position.
MainLine == << "e4", "e5", "Nf3" >>
SetUpLine == << "Kb1", "Rb8" >>

\* A PGN text, by what chess.loadPgn makes of it: ok, it parses; start, the
\* position the game begins in (the FEN tag, or the standard position);
\* moves, the SAN of chess.history().
Pgn(ok, start, moves) == [ok |-> ok, start |-> start, moves |-> moves]

\* chess.reset(): the standard starting position, whatever was loaded.
Reset == "start"

MaterialValue(piece) ==
  CASE piece \in {"p", "P"} -> 1
    [] piece \in {"n", "N", "b", "B"} -> 3
    [] piece \in {"r", "R"} -> 5
    [] piece \in {"q", "Q"} -> 9
    [] OTHER -> 0

IsWhite(piece) == piece \in {"P", "N", "B", "R", "Q", "K"}

\* calculateMaterial, part_000 lines 211-230: white - black of the returned pair.
RECURSIVE CalculateMaterial(_)
CalculateMaterial(board) ==
  IF board = <<>> THEN 0
  ELSE (IF IsWhite(Head(board)) THEN MaterialValue(Head(board))
        ELSE -MaterialValue(Head(board))) + CalculateMaterial(Tail(board))

Min(a, b) == IF a < b THEN a ELSE b

\* A confidence that is not capped at 1.0.
CalculateConfidenceUncapped(bestMove, topMoves) ==
  IF Len(topMoves) < 2 THEN 200
  ELSE Abs(bestMove.evaluation - topMoves[2].evaluation)

\* calculateConfidence, part_000 lines 498-503, in two-hundredths: 1.0 is 200,
\* and evalDiff / 2.0 of a difference of d hundredths of a pawn is d.
CalculateConfidence(bestMove, topMoves) ==
  IF Len(topMoves) < 2 THEN 200
  ELSE Min(200, Abs(bestMove.evaluation - topMoves[2].evaluation))

Alternative(alt) == [move |-> alt.bestMove, evaluation |-> alt.evaluation]

\* The AIMoveSuggestion of the engine path, part_000 lines 161-176.
EngineSuggestion(analysis, topMoves) ==
  [move |-> analysis.bestMove,
   confidence |-> CalculateConfidence(analysis, topMoves),
   evaluation |-> analysis.evaluation,
   alternatives |-> [k \in 1..(Len(topMoves) - 1) |-> Alternative(topMoves[k + 1])],
   reasoning |-> "engine"]

\* generateFallbackAnalysis, part_000 lines 184-209.  random is
\* Math.floor(Math.random() * Math.min(moves.length, 5)); evaluation is in
\* hundredths of a pawn; confidence 0.3 is 60 two-hundredths.
GenerateFallbackAnalysis(fen, random) ==
  LET moves == Moves(fen)
      evaluation == CalculateMaterial(Board(fen)) * 100
      randomMove == IF random + 1 <= Len(moves) THEN moves[random + 1] ELSE "e2e4"
  IN [move |-> randomMove,
      confidence |-> 60,
      evaluation |-> evaluation,
      alternatives |-> [k \in 1..(Min(Len(moves), 4) - 1) |->
                          [move |-> moves[k + 1], evaluation |-> 0]],
      reasoning |-> "simplified analysis without Stockfish engine"]

RandomChoices(fen) == 0..(Min(Len(Moves(fen)), 5) - 1) \cup {0}

\* chess.fen() in iteration k of the loops over history: chess.reset() and
\* then k times chess.move(history[i].san).
RECURSIVE FenAfter(_, _)
FenAfter(moves, k) ==
  IF k = 0 THEN Reset ELSE PlayMove(FenAfter(moves, k - 1), moves[k])

\* new Chess(fen) throws on a FEN that does not validate.
ValidFen(fen) == fen # "invalid"

\* chess.move(san) throws on a move that is not legal in the position.
MoveThrows(fen, san) == san \notin Accepted(fen)

\* generateFallbackGameAnalysis, part_000 lines 260-317, and
\* generateEmptyGameAnalysis, lines 319-343 (the fields the model keeps).
GenerateFallbackGameAnalysis(pgn) ==
  IF ~pgn.ok
    THEN [summary |-> [whiteAccuracy |-> [num |-> 50, den |-> 1],
                       blackAccuracy |-> [num |-> 50, den |-> 1],
                       criticalMoments |-> 0],
          moves |-> <<>>, path |-> "empty"]
    ELSE [summary |-> [whiteAccuracy |-> [num |-> 50, den |-> 1],
                       blackAccuracy |-> [num |-> 50, den |-> 1],
                       criticalMoments |-> 0],
          moves |-> [k \in 1..Len(pgn.moves) |->
                       PositionAnalysis(FenAfter(pgn.moves, k - 1), pgn.moves[k],
                         [bestMove |-> pgn.moves[k], evaluation |-> 0, depth |-> 1,
                          nodes |-> 1, pv |-> <<pgn.moves[k]>>, mate |-> <<>>],
                         {})],
          path |-> "fallback"]

\* The loop of generateFallbackGameAnalysis throws out of the method.
FallbackGameThrows(pgn) ==
  /\ pgn.ok
  /\ \E k \in 1..Len(pgn.moves) : MoveThrows(FenAfter(pgn.moves, k - 1), pgn.moves[k])

----------------------------------------------------------------------------
(* Asynchronous calls.  A frame is one call of an async method; pc says    *)
(* where it is suspended:                                                  *)
(*   "init"      awaiting initialize(), whose import has not settled       *)
(*   "initDone"  initialize() returned; the continuation is queued         *)
(*   "wait"      awaiting the search promise                               *)
(*   "thrown"    the awaited promise is rejected; the continuation is queued*)
(*   "done" / "failed"  the call returned / threw to its caller            *)
(*   "ret"       the awaited method returned; the continuation is queued   *)
(* stage names the method whose await the frame is suspended in.  during,  *)
(* afterTerminate and notReady are history: the getEngine calls for the    *)
(* same unseen version that were awaiting initialize() when the call began,*)
(* whether terminate() had been called on the engine before the call began,*)
(* and whether a search of the call ran its executor with isReady false;   *)
(* sids lists the searches the call started, in order.                     *)

NewCall(kind, ver, eng, fen, depth) ==
  [kind |-> kind, stage |-> kind, pc |-> "start", ver |-> ver, eng |-> eng,
   fen |-> fen, depth |-> depth, sid |-> 0, ret |-> 0, result |-> NoResult,
   i |-> 0, topMoves |-> <<>>, pgn |-> Pgn(TRUE, "start", <<>>), analyses |-> <<>>,
   versions |-> <<>>, results |-> {},
   out |-> [reasoning |-> "none"],
   during |-> {}, afterTerminate |-> FALSE, notReady |-> FALSE, sids |-> <<>>]

\* A queued continuation: it runs before any timer, message or new request.
Runnable(s, c) ==
  \/ s.calls[c].pc \in {"initDone", "thrown", "ret"}
  \/ s.calls[c].pc = "wait" /\ s.searches[s.calls[c].sid].status # "pending"

NoMicrotask == \A c \in 1..Len(calls) : ~Runnable(Cur, c)

\* A method returns: to the outside, or into the frame that awaits it.
Returned(s, c) == IF s.calls[c].kind = s.calls[c].stage THEN "done" ELSE "ret"

\* getEngine, lines 294-296: has(version), new StockfishEngine, initialize().
GetEngineBegin(s, c) ==
  LET v == s.calls[c].ver
  IN IF s.registry[v] = 0
       THEN LET e == Len(s.engines) + 1
                s1 == [s EXCEPT !.engines = Append(@, NewEngine(v)),
                                !.calls[c].eng = e,
                                !.calls[c].pc = "init"]
            IN InitializeBegin(s1, e)
       ELSE [s EXCEPT !.calls[c].ret = s.registry[v], !.calls[c].pc = Returned(s, c)]

\* getEngine, lines 297-300: engines.set(version, engine); return engines.get(version).
GetEngineResume(s, c) ==
  LET v == s.calls[c].ver
      s1 == [s EXCEPT !.registry[v] = s.calls[c].eng]
  IN [s1 EXCEPT !.calls[c].ret = s1.registry[v], !.calls[c].pc = Returned(s, c)]

\* analyzePosition, line 104 on: run the executor.  With this.engine
\* undefined, `this.engine.onmessage = ...` throws inside the executor and the
\* promise is rejected (the timer armed before it fires later without effect).
RunExecutor(s, c) ==
  LET f == s.calls[c]
      s0 == [s EXCEPT !.calls[c].notReady = @ \/ ~s.engines[f.eng].isReady]
  IN IF s.engines[f.eng].engine = 0
       THEN [s0 EXCEPT !.calls[c].pc = "thrown"]
       ELSE [Execute(s0, f.eng, f.fen, f.depth)
               EXCEPT !.calls[c].sid = Len(s.searches) + 1, !.calls[c].pc = "wait",
                      !.calls[c].sids = Append(@, Len(s.searches) + 1)]

\* analyzePosition, lines 100-102: if (!this.isReady) await this.initialize().
AnalyzePositionBegin(s, c) ==
  LET e == s.calls[c].eng
  IN IF ~s.engines[e].isReady
       THEN [InitializeBegin(s, e) EXCEPT !.calls[c].pc = "init"]
       ELSE RunExecutor(s, c)

\* getTopMoves(fen, 3), stockfish.ts lines 188-212.
NumMoves == 3
TopMovesDepth == 15

\* analyzeGame searches every position to this depth, stockfish.ts line 232.
GameDepth == 18

\* The head of the loop of getTopMoves, lines 191-192, and its return, line 211.
GetTopMovesLoop(s, c) ==
  IF s.calls[c].i < NumMoves
    THEN AnalyzePositionBegin([s EXCEPT !.calls[c].depth = TopMovesDepth], c)
    ELSE [s EXCEPT !.calls[c].pc = "ret"]

\* The body of the loop of getTopMoves after its search, lines 193-208.
GetTopMovesStep(s, c) ==
  LET f == s.calls[c]
      analysis == s.searches[f.sid].result
      s1 == [s EXCEPT !.calls[c].i = @ + 1]
  IN IF analysis.bestMove = "" THEN GetTopMovesLoop(s1, c)
     ELSE LET s2 == [s1 EXCEPT !.calls[c].topMoves = Append(@, analysis)]
          IN IF ~ValidFen(f.fen) THEN [s2 EXCEPT !.calls[c].pc = "thrown"]
             ELSE IF MoveThrows(f.fen, analysis.bestMove)
               THEN [s2 EXCEPT !.calls[c].pc = "ret"]
               ELSE GetTopMovesLoop(
                      PostMessage(s2, s2.engines[f.eng].engine, PositionCmd(f.fen)), c)

\* GeminiChessAI.analyzePosition, part_000 lines 145-181: the continuation
\* after each await, and the catch block.  random is the draw of the fallback.
AiPositionContinue(s, c, random) ==
  LET f == s.calls[c]
  IN IF f.pc = "thrown" \/ (f.pc = "ret" /\ f.stage = "getTopMoves" /\ ~ValidFen(f.fen))
       THEN IF ~ValidFen(f.fen) THEN [s EXCEPT !.calls[c].pc = "failed"]
            ELSE [s EXCEPT !.calls[c].out = GenerateFallbackAnalysis(f.fen, random),
                           !.calls[c].pc = "done"]
     ELSE IF f.pc = "initDone"
       THEN IF f.stage = "getEngine" THEN GetEngineResume(s, c) ELSE RunExecutor(s, c)
     ELSE IF f.stage = "getEngine"
       THEN AnalyzePositionBegin(
              [s EXCEPT !.calls[c].eng = f.ret, !.calls[c].stage = "analyzePosition"], c)
     ELSE IF f.stage = "analyzePosition"
       THEN GetTopMovesLoop(
              [s EXCEPT !.calls[c].result = s.searches[f.sid].result,
                        !.calls[c].stage = "getTopMoves"], c)
     ELSE IF f.pc = "wait" THEN GetTopMovesStep(s, c)
     ELSE [s EXCEPT !.calls[c].out = EngineSuggestion(f.result, f.topMoves),
                    !.calls[c].pc = "done"]

\* The head of the loop of StockfishEngine.analyzeGame, lines 228-232, and
\* its return, line 247.
AnalyzeGameLoop(s, c) ==
  IF s.calls[c].i < Len(s.calls[c].pgn.moves)
    THEN AnalyzePositionBegin([s EXCEPT !.calls[c].depth = GameDepth], c)
    ELSE [s EXCEPT !.calls[c].pc = "ret"]

\* StockfishEngine.analyzeGame up to its first await, lines 215-232.
AnalyzeGameBegin(s, c) ==
  IF ~s.calls[c].pgn.ok THEN [s EXCEPT !.calls[c].pc = "ret"]
  ELSE AnalyzeGameLoop([s EXCEPT !.calls[c].fen = Reset], c)

\* The body of the loop of analyzeGame after its search, lines 234-244.
AnalyzeGameStep(s, c) ==
  LET f == s.calls[c]
      analysis == s.searches[f.sid].result
      move == f.pgn.moves[f.i + 1]
      entry == PositionAnalysis(f.fen, move, analysis, ClassifyMove(analysis.evaluation, f.i))
      s1 == [s EXCEPT !.calls[c].analyses = Append(@, entry)]
  IN IF MoveThrows(f.fen, move) THEN [s1 EXCEPT !.calls[c].pc = "thrown"]
     ELSE AnalyzeGameLoop([s1 EXCEPT !.calls[c].fen = PlayMove(f.fen, move),
                                     !.calls[c].i = @ + 1], c)

\* The catch block of GeminiChessAI.analyzeGame, lines 254-257.
AiGameCatch(s, c) ==
  LET pgn == s.calls[c].pgn
  IN IF FallbackGameThrows(pgn) THEN [s EXCEPT !.calls[c].pc = "failed"]
     ELSE [s EXCEPT !.calls[c].out = GenerateFallbackGameAnalysis(pgn),
                    !.calls[c].pc = "done"]

\* GeminiChessAI.analyzeGame, part_000 lines 237-257.
AiGameContinue(s, c) ==
  LET f == s.calls[c]
  IN IF f.pc = "thrown" THEN AiGameCatch(s, c)
     ELSE IF f.pc = "initDone"
       THEN IF f.stage = "getEngine" THEN GetEngineResume(s, c) ELSE RunExecutor(s, c)
     ELSE IF f.stage = "getEngine"
       THEN AnalyzeGameBegin(
              [s EXCEPT !.calls[c].eng = f.ret, !.calls[c].stage = "analyzeGame"], c)
     ELSE IF f.pc = "wait" THEN AnalyzeGameStep(s, c)
     ELSE IF ~f.pgn.ok THEN AiGameCatch(s, c)
     ELSE [s EXCEPT !.calls[c].out =
                      [summary |-> GenerateGameSummary(f.analyses),
                       moves |-> f.analyses, path |-> "engine"],
                    !.calls[c].pc = "done"]

\* compareVersions searches to this depth, stockfish.ts line 308.
CompareDepth == 20

\* A map that keeps the old entry of a version next to the new one.
MapSetKeepsOld(results, version, analysis) ==
  results \cup {[version |-> version, analysis |-> analysis]}

\* results.set(version, analysis): results is the set of the Map's entries.
MapSet(results, version, analysis) ==
  { r \in results : r.version # version } \cup {[version |-> version, analysis |-> analysis]}

\* The head of the loop of compareVersions, lines 306-307, and its return,
\* line 312.
CompareVersionsLoop(s, c) ==
  LET f == s.calls[c]
  IN IF f.i < Len(f.versions)
       THEN GetEngineBegin([s EXCEPT !.calls[c].ver = f.versions[f.i + 1],
                                     !.calls[c].stage = "getEngine"], c)
       ELSE [s EXCEPT !.calls[c].pc = "done"]

\* A compareVersions that searches to depth 1 instead of 20.
CompareVersionsContinueShallow(s, c) ==
  LET f == s.calls[c]
  IN IF f.pc = "thrown" THEN [s EXCEPT !.calls[c].pc = "failed"]
     ELSE IF f.pc = "initDone"
       THEN IF f.stage = "getEngine" THEN GetEngineResume(s, c) ELSE RunExecutor(s, c)
     ELSE IF f.stage = "getEngine"
       THEN AnalyzePositionBegin(
              [s EXCEPT !.calls[c].eng = f.ret, !.calls[c].stage = "analyzePosition",
                        !.calls[c].depth = 1], c)
     ELSE CompareVersionsLoop(
            [s EXCEPT !.calls[c].results =
                        MapSet(@, f.versions[f.i + 1], s.searches[f.sid].result),
                      !.calls[c].i = @ + 1], c)

\* compareVersions, lines 303-313: the continuation after each await.
CompareVersionsContinue(s, c) ==
  LET f == s.calls[c]
  IN IF f.pc = "thrown" THEN [s EXCEPT !.calls[c].pc = "failed"]
     ELSE IF f.pc = "initDone"
       THEN IF f.stage = "getEngine" THEN GetEngineResume(s, c) ELSE RunExecutor(s, c)
     ELSE IF f.stage = "getEngine"
       THEN AnalyzePositionBegin(
              [s EXCEPT !.calls[c].eng = f.ret, !.calls[c].stage = "analyzePosition",
                        !.calls[c].depth = CompareDepth], c)
     ELSE CompareVersionsLoop(
            [s EXCEPT !.calls[c].results =
                        MapSet(@, f.versions[f.i + 1], s.searches[f.sid].result),
                      !.calls[c].i = @ + 1], c)

\* The continuation of frame c.
Continue(s, c, random) ==
  LET f == s.calls[c]
  IN IF f.kind = "aiPosition" THEN AiPositionContinue(s, c, random)
     ELSE IF f.kind = "aiGame" THEN AiGameContinue(s, c)
     ELSE IF f.kind = "compareVersions" THEN CompareVersionsContinue(s, c)
     ELSE IF f.stage = "getEngine" THEN GetEngineResume(s, c)
     ELSE IF f.pc = "initDone" THEN RunExecutor(s, c)
     ELSE IF f.pc = "thrown" THEN [s EXCEPT !.calls[c].pc = "failed"]
     ELSE [s EXCEPT !.calls[c].result = s.searches[f.sid].result, !.calls[c].pc = "done"]

\* The draws Math.random can make in the continuation of frame c.
Draws(s, c) ==
  IF s.calls[c].kind = "aiPosition" /\ s.calls[c].pc = "thrown"
    THEN RandomChoices(s.calls[c].fen) ELSE {0}

\* Engine objects a caller holds: the ones getEngine returned.
Handles == { calls[c].ret : c \in { d \in 1..Len(calls) :
                calls[d].kind = "getEngine" /\ calls[d].pc = "done" } }

Fens == {"start"}
Depths == {1, 2}

\* The engine output and requests drawn in the pool specification.
PoolLines == { L \in InfoLines : ParseInt(L, 3) = 2 /\ Tok(L, 5) = "cp" }
PoolDepths == {2}

----------------------------------------------------------------------------
(* Actions of the pool and protocol client *)

\* A caller invokes pool.getEngine(v).
CallGetEngine(v, limit) ==
  /\ Len(calls) < limit
  /\ NoMicrotask
  /\ LET c == Len(calls) + 1
         waiting == { d \in 1..Len(calls) : calls[d].kind = "getEngine" /\ registry[v] = 0
                        /\ calls[d].ver = v /\ calls[d].pc = "init" }
         s1 == [Cur EXCEPT !.calls =
                  Append(@, [NewCall("getEngine", v, 0, "", 0) EXCEPT !.during = waiting])]
     IN Commit(GetEngineBegin(s1, c))
  /\ UNCHANGED <<ops, pure>>

\* A caller invokes engine.analyzePosition(fen, depth, time) on a handle.
CallAnalyzePosition(e, fen, depth, limit) ==
  /\ Len(calls) < limit
  /\ NoMicrotask
  /\ e \in Handles
  /\ LET c == Len(calls) + 1
         s1 == [Cur EXCEPT !.calls =
                  Append(@, [NewCall("analyzePosition", engines[e].version, e, fen, depth)
                               EXCEPT !.afterTerminate = engines[e].terminated])]
     IN Commit(AnalyzePositionBegin(s1, c))
  /\ UNCHANGED <<ops, pure>>

\* The dynamic import of a pending initialize() settles.
ImportSettles(c, ok) ==
  /\ c \in 1..Len(calls)
  /\ calls[c].pc = "init"
  /\ ok => Len(workers) < MaxWorkers
  /\ Commit([InitializeResume(Cur, calls[c].eng, ok) EXCEPT !.calls[c].pc = "initDone"])
  /\ UNCHANGED <<ops, pure>>

\* A queued continuation runs.
Resume(c) ==
  /\ c \in 1..Len(calls)
  /\ Runnable(Cur, c)
  /\ \E random \in Draws(Cur, c) : Commit(Continue(Cur, c, random))
  /\ UNCHANGED <<ops, pure>>

\* A caller invokes ai.analyzePosition(fen, depth, v).
CallAiPosition(fen, depth, v, limit) ==
  /\ Len(calls) < limit
  /\ NoMicrotask
  /\ LET c == Len(calls) + 1
         s1 == [Cur EXCEPT !.calls =
                  Append(@, [NewCall("aiPosition", v, 0, fen, depth)
                               EXCEPT !.stage = "getEngine"])]
     IN Commit(GetEngineBegin(s1, c))
  /\ UNCHANGED <<ops, pure>>

\* A caller invokes pool.compareVersions(fen, versions).
CallCompareVersions(fen, versions, limit) ==
  /\ Len(calls) < limit
  /\ NoMicrotask
  /\ LET c == Len(calls) + 1
         s1 == [Cur EXCEPT !.calls =
                  Append(@, [NewCall("compareVersions", "", 0, fen, CompareDepth)
                               EXCEPT !.versions = versions])]
     IN Commit(CompareVersionsLoop(s1, c))
  /\ UNCHANGED <<ops, pure>>

\* A caller invokes ai.analyzeGame(pgn, platform, v).
CallAiGame(pgn, v, limit) ==
  /\ Len(calls) < limit
  /\ NoMicrotask
  /\ LET c == Len(calls) + 1
         s1 == [Cur EXCEPT !.calls =
                  Append(@, [NewCall("aiGame", v, 0, "", 0)
                               EXCEPT !.stage = "getEngine", !.pgn = pgn])]
     IN Commit(GetEngineBegin(s1, c))
  /\ UNCHANGED <<ops, pure>>

\* The engine process writes a line; the installed handler receives it.
EngineLine(w, parts) ==
  /\ NoMicrotask
  /\ w \in 1..Len(workers)
  /\ ~workers[w].quit
  /\ workers[w].onmessage # 0
  /\ workers[w].go > 0
  /\ Tok(parts, 1) = "info" => workers[w].info > 0
  /\ LET s1 == IF Tok(parts, 1) = "bestmove"
                 THEN [Cur EXCEPT !.workers[w].go = @ - 1]
               ELSE IF Tok(parts, 1) = "info"
                 THEN [Cur EXCEPT !.workers[w].info = @ - 1]
               ELSE Cur
     IN Commit(OnMessage(s1, w, parts))
  /\ UNCHANGED <<ops, pure>>

\* The time limit of a search elapses.
TimerFires(sid) ==
  /\ NoMicrotask
  /\ sid \in 1..Len(searches)
  /\ searches[sid].timer = "armed"
  /\ Commit(TimeoutFires(Cur, sid))
  /\ UNCHANGED <<ops, pure>>

\* A caller invokes engine.terminate() on a handle.
CallTerminate(e) ==
  /\ ops < MaxOps
  /\ NoMicrotask
  /\ e \in Handles
  /\ Commit(Terminate(Cur, e))
  /\ ops' = ops + 1
  /\ UNCHANGED pure

\* A caller invokes pool.terminateAll().
CallTerminateAll ==
  /\ ops < MaxOps
  /\ NoMicrotask
  /\ Commit(TerminateAll(Cur))
  /\ ops' = ops + 1
  /\ UNCHANGED pure

Init ==
  /\ registry = [v \in Versions |-> 0]
  /\ engines = <<>>
  /\ workers = <<>>
  /\ searches = <<>>
  /\ calls = <<>>
  /\ ops = 0
  /\ pure = [op |-> "none"]

Next ==
  \/ \E v \in Versions : CallGetEngine(v, MaxCalls)
  \/ \E e \in 1..Len(engines), fen \in Fens, depth \in PoolDepths :
        CallAnalyzePosition(e, fen, depth, MaxCalls)
  \/ \E c \in 1..MaxCalls, ok \in BOOLEAN : ImportSettles(c, ok)
  \/ \E c \in 1..MaxCalls : Resume(c)
  \/ \E w \in 1..MaxWorkers, mv \in BestMoves : EngineLine(w, BestmoveLine(mv))
  \/ \E w \in 1..MaxWorkers, parts \in PoolLines : EngineLine(w, parts)
  \/ \E sid \in 1..Len(searches) : TimerFires(sid)
  \/ \E e \in 1..Len(engines) : CallTerminate(e)
  \/ CallTerminateAll

Spec == Init /\ [][Next]_vars

\* The protocol client of one version under the full engine output.
SearchVersions == {"17"}

NextSearch ==
  \/ \E v \in SearchVersions : CallGetEngine(v, MaxSearchCalls)
  \/ \E e \in 1..Len(engines), fen \in Fens, depth \in Depths :
        CallAnalyzePosition(e, fen, depth, MaxSearchCalls)
  \/ \E c \in 1..MaxSearchCalls, ok \in BOOLEAN : ImportSettles(c, ok)
  \/ \E c \in 1..MaxSearchCalls : Resume(c)
  \/ \E w \in 1..MaxWorkers, mv \in BestMoves : EngineLine(w, BestmoveLine(mv))
  \/ \E w \in 1..MaxWorkers, parts \in InfoLines \cup OtherLines : EngineLine(w, parts)
  \/ \E sid \in 1..Len(searches) : TimerFires(sid)

SpecSearch == Init /\ [][NextSearch]_vars

\* Timers fire and queued continuations run: the event loop does not stop.
FairSearch ==
  /\ SpecSearch
  /\ \A sid \in 1..MaxSearchCalls : WF_vars(TimerFires(sid))
  /\ \A c \in 1..MaxSearchCalls : WF_vars(Resume(c))

\* GeminiChessAI.analyzePosition: the positions asked about and what the
\* engine may print.
MaxAiCalls == 1
AiFens == {"start", "kqk"}
AiLines ==
  PoolLines \cup
  { << W("info"), W("depth"), N(1), W("score"), W("cp"), N(90), W("pv"), W("e2e4") >> }
AiBestMoves == {"e2e4", "(none)"}

NextAI ==
  \/ \E fen \in AiFens, depth \in PoolDepths, v \in SearchVersions :
        CallAiPosition(fen, depth, v, MaxAiCalls)
  \/ \E c \in 1..MaxAiCalls, ok \in BOOLEAN : ImportSettles(c, ok)
  \/ \E c \in 1..MaxAiCalls : Resume(c)
  \/ \E w \in 1..MaxWorkers, mv \in AiBestMoves : EngineLine(w, BestmoveLine(mv))
  \/ \E w \in 1..MaxWorkers, parts \in AiLines : EngineLine(w, parts)
  \/ \E sid \in 1..Len(searches) : TimerFires(sid)

SpecAI == Init /\ [][NextAI]_vars

\* GeminiChessAI.analyzePosition and GeminiChessAI.terminate() (terminateAll
\* of its pool), with an engine that prints nothing but its bestmove lines.
NextAITerminate ==
  \/ \E fen \in AiFens \cup {"invalid"}, depth \in PoolDepths, v \in SearchVersions :
        CallAiPosition(fen, depth, v, MaxAiCalls)
  \/ \E c \in 1..MaxAiCalls, ok \in BOOLEAN : ImportSettles(c, ok)
  \/ \E c \in 1..MaxAiCalls : Resume(c)
  \/ \E w \in 1..MaxWorkers, mv \in AiBestMoves : EngineLine(w, BestmoveLine(mv))
  \/ \E sid \in 1..Len(searches) : TimerFires(sid)
  \/ CallTerminateAll

SpecAITerminate == Init /\ [][NextAITerminate]_vars

\* GeminiChessAI.analyzeGame: the games submitted.
MaxGamePlies == 2
Games ==
  { Pgn(TRUE, "start", SubSeq(MainLine, 1, n)) : n \in 0..Min(MaxGamePlies, Len(MainLine)) } \cup
  { Pgn(TRUE, "krpk", SubSeq(SetUpLine, 1, n)) : n \in 1..Min(MaxGamePlies, Len(SetUpLine)) } \cup
  { Pgn(TRUE, "odds", SubSeq(MainLine, 1, n)) : n \in 1..Min(MaxGamePlies, Len(MainLine)) } \cup
  { Pgn(FALSE, "start", << >>) }

NextGame ==
  \/ \E pgn \in Games, v \in SearchVersions : CallAiGame(pgn, v, MaxAiCalls)
  \/ \E c \in 1..MaxAiCalls, ok \in BOOLEAN : ImportSettles(c, ok)
  \/ \E c \in 1..MaxAiCalls : Resume(c)
  \/ \E w \in 1..MaxWorkers, mv \in BestMoves : EngineLine(w, BestmoveLine(mv))
  \/ \E w \in 1..MaxWorkers, parts \in AiLines : EngineLine(w, parts)
  \/ \E sid \in 1..Len(searches) : TimerFires(sid)

SpecGame == Init /\ [][NextGame]_vars

\* The pool under getEngine, analyzePosition, terminate and terminateAll.
NextTerminate ==
  \/ \E v \in Versions : CallGetEngine(v, MaxSearchCalls)
  \/ \E e \in 1..Len(engines), fen \in Fens, depth \in PoolDepths :
        CallAnalyzePosition(e, fen, depth, MaxSearchCalls)
  \/ \E c \in 1..MaxSearchCalls, ok \in BOOLEAN : ImportSettles(c, ok)
  \/ \E c \in 1..MaxSearchCalls : Resume(c)
  \/ \E w \in 1..MaxWorkers, mv \in BestMoves : EngineLine(w, BestmoveLine(mv))
  \/ \E w \in 1..MaxWorkers, parts \in PoolLines : EngineLine(w, parts)
  \/ \E sid \in 1..Len(searches) : TimerFires(sid)
  \/ \E e \in 1..Len(engines) : CallTerminate(e)
  \/ CallTerminateAll

SpecTerminate == Init /\ [][NextTerminate]_vars

\* The pool under compareVersions and terminateAll.
MaxCompareCalls == 1
MaxVersions == 2
VersionLists ==
  { vs \in UNION { [1..n -> Versions] : n \in 0..MaxVersions } : TRUE }

NextCompare ==
  \/ \E fen \in Fens, vs \in VersionLists : CallCompareVersions(fen, vs, MaxCompareCalls)
  \/ \E c \in 1..MaxCompareCalls, ok \in BOOLEAN : ImportSettles(c, ok)
  \/ \E c \in 1..MaxCompareCalls : Resume(c)
  \/ \E w \in 1..MaxWorkers, mv \in BestMoves : EngineLine(w, BestmoveLine(mv))
  \/ \E w \in 1..MaxWorkers, parts \in PoolLines : EngineLine(w, parts)
  \/ \E sid \in 1..Len(searches) : TimerFires(sid)
  \/ CallTerminateAll

SpecCompare == Init /\ [][NextCompare]_vars

----------------------------------------------------------------------------
(* Claims about the pool and the protocol client *)

CallIds == 1..Len(calls)
SearchIds == 1..Len(searches)

\* C1: a getEngine(v) call that begins while another getEngine(v) call for the
\* same unseen version is still awaiting initialize() constructs no second
\* StockfishEngine, invokes no second initialize(), and both calls return the
\* same handle.
C1_ConcurrentGetEngineInitializesOnce ==
  \A c \in CallIds : \A d \in calls[c].during :
    /\ calls[c].eng = 0 \/ calls[c].eng = calls[d].eng
    /\ engines[calls[d].eng].inits = 1
    /\ calls[c].pc = "done" /\ calls[d].pc = "done" => calls[c].ret = calls[d].ret

\* C2: at most one search is outstanding on a StockfishEngine at any time: a
\* second analyzePosition installs no handler and sends no position/go while
\* an earlier search on the same engine is pending.
C2_OneOutstandingSearchPerEngine ==
  \A p, q \in SearchIds :
    (p # q /\ searches[p].eng = searches[q].eng)
      => ~(searches[p].status = "pending" /\ searches[q].status = "pending")

\* C5: an analyzePosition call made after terminate() on the same engine
\* starts no search (sends no position/go), starts no engine process and
\* returns no result.
C5_SearchAfterTerminateFails ==
  \A c \in CallIds :
    calls[c].afterTerminate => calls[c].sid = 0 /\ calls[c].pc # "done"

\* What ended search sid in the step from the current state, read from the
\* program's own state: the timer that fired, the move a bestmove line set, or
\* the timer cleared with the depth limit reached.
EndedByTimeout(sid) == searches[sid].timer = "armed" /\ searches'[sid].timer = "fired"
EndedByBestmove(sid) == searches[sid].bestMove = "" /\ searches'[sid].bestMove # ""
EndedByDepth(sid) ==
  /\ searches'[sid].timer = "cleared"
  /\ searches'[sid].bestMove = ""
  /\ searches'[sid].depthReached >= searches[sid].depth

Settles(sid) == searches[sid].status = "pending" /\ searches'[sid].status # "pending"

RECURSIVE CountStop(_)
CountStop(cmds) ==
  IF cmds = <<>> THEN 0
  ELSE (IF Head(cmds).op = "stop" THEN 1 ELSE 0) + CountStop(Tail(cmds))

RECURSIVE StopsSent(_)
StopsSent(ws) == IF ws = <<>> THEN 0 ELSE CountStop(Head(ws).cmds) + StopsSent(Tail(ws))

\* C3: every search that has started returns; when its time limit elapses first
\* it resolves (it is not rejected) with the evaluation, depth, nodes, pv and
\* mate its handler had accumulated, and with the empty bestMove.
C3_TimeoutStep ==
  \A sid \in SearchIds :
    EndedByTimeout(sid) =>
      /\ searches[sid].status = "pending"
      /\ searches'[sid].status = "resolved"
      /\ searches'[sid].result = Snapshot(searches[sid])

C3_SearchReturnsSnapshot ==
  /\ [][C3_TimeoutStep]_vars
  /\ \A sid \in 1..MaxSearchCalls :
       [](sid \in SearchIds => <>(sid \in SearchIds /\ searches[sid].status = "resolved"))

C3_Witness ==
  \E sid \in SearchIds :
    /\ searches[sid].cause = "timeout"
    /\ searches[sid].result.depth = 1
    /\ searches[sid].result.mate = <<3>>
    /\ searches[sid].result.bestMove = ""

\* C4: a pending search has received no bestmove line, has not reached its
\* depth limit and its timer has not fired; it ends by exactly one of the
\* three, sending one `stop` when it ends by depth or timeout and none when it
\* ends by a bestmove line.
C4_PendingState ==
  \A sid \in SearchIds :
    searches[sid].status = "pending" =>
      /\ searches[sid].timer = "armed"
      /\ searches[sid].bestMove = ""
      /\ searches[sid].depthReached < searches[sid].depth

C4_EndStep ==
  \A sid \in SearchIds :
    Settles(sid) =>
      \/ /\ EndedByBestmove(sid)
         /\ ~EndedByTimeout(sid)
         /\ StopsSent(workers') = StopsSent(workers)
      \/ /\ EndedByDepth(sid)
         /\ StopsSent(workers') = StopsSent(workers) + 1
      \/ /\ EndedByTimeout(sid)
         /\ ~EndedByBestmove(sid)
         /\ StopsSent(workers') = StopsSent(workers) + 1

C4_SearchEndsAtFirstEvent == []C4_PendingState /\ [][C4_EndStep]_vars

C4_Witness ==
  \E sid \in SearchIds :
    /\ searches[sid].cause = "depth"
    /\ searches[sid].result.depth = 2
    /\ StopsSent(workers) = 1

----------------------------------------------------------------------------
(* The pure functions applied to enumerated arguments *)

MaxMoveIndex == 12   \* move indexes 0..MaxMoveIndex are classified
MaxPlies == 3        \* plies of a summarised game

EvalSamples ==
  { 0, 10, 11, 20, 21, 49, 50, 149, 150, 299, 300, 301, MateEval(3),
    -10, -11, -20, -21, -49, -50, -149, -150, -299, -300, MateEval(-3) }

FlagSets == { {"blunder"}, {"mistake"}, {"inaccuracy"}, {"best"}, {"brilliant"}, {} }

FlagLists == UNION { [1..n -> FlagSets] : n \in 0..MaxPlies }

ApplyClassifyMove(evaluation, moveIndex) ==
  /\ pure' = [op |-> "classifyMove", evaluation |-> evaluation, moveIndex |-> moveIndex,
              flags |-> ClassifyMove(evaluation, moveIndex)]
  /\ UNCHANGED <<registry, engines, workers, searches, calls, ops>>

ApplyGenerateGameSummary(flagList) ==
  LET analyses == [k \in 1..Len(flagList) |->
                     PositionAnalysis("start", "e4", NoResult, flagList[k])]
  IN /\ pure' = [op |-> "generateGameSummary", analyses |-> analyses,
                 summary |-> GenerateGameSummary(analyses)]
     /\ UNCHANGED <<registry, engines, workers, searches, calls, ops>>

\* Progress lines with a score: mate distances up to MaxMate either way, and
\* centipawn scores up to MaxCp, the largest an engine reports.
MaxMate == 4
MaxCp == 32000
CpSamples == { -MaxCp, -150, -1, 0, 1, 30, MaxCp }

ScoreLines ==
  { << W("info"), W("depth"), N(1), W("score"), W(kind), N(n), W("nodes"), N(100),
       W("pv"), W("e2e4") >> :
      kind \in {"mate"}, n \in (-MaxMate)..MaxMate } \cup
  { << W("info"), W("depth"), N(1), W("score"), W(kind), N(c), W("nodes"), N(100),
       W("pv"), W("e2e4") >> :
      kind \in {"cp"}, c \in CpSamples }

\* The handler's accumulator when the executor installs it, lines 106-111.
NewAccumulator ==
  [evaluation |-> 0, depthReached |-> 0, nodes |-> 0, pv |-> <<>>, mate |-> <<>>]

ApplyParseInfo(parts) ==
  /\ pure' = [op |-> "parseInfo", parts |-> parts, acc |-> ParseInfo(parts, 1, NewAccumulator)]
  /\ UNCHANGED <<registry, engines, workers, searches, calls, ops>>

NextPure ==
  \/ \E evaluation \in EvalSamples, moveIndex \in 0..MaxMoveIndex :
        ApplyClassifyMove(evaluation, moveIndex)
  \/ \E flagList \in FlagLists : ApplyGenerateGameSummary(flagList)
  \/ \E parts \in ScoreLines : ApplyParseInfo(parts)

SpecPure == Init /\ [][NextPure]_vars

\* C6: classifyMove sets at most one flag, the first match of
\* |e| >= 3.0 blunder, |e| >= 1.5 mistake, |e| >= 0.5 inaccuracy, |e| <= 0.1 best,
\* |e| <= 0.2 with move index > 10 brilliant, otherwise none.
C6_Expected(e, i) ==
  CASE Abs(e) >= 300 -> {"blunder"}
    [] Abs(e) < 300 /\ Abs(e) >= 150 -> {"mistake"}
    [] Abs(e) < 150 /\ Abs(e) >= 50 -> {"inaccuracy"}
    [] Abs(e) <= 10 -> {"best"}
    [] Abs(e) > 10 /\ Abs(e) <= 20 /\ i > 10 -> {"brilliant"}
    [] OTHER -> {}

C6_ClassifyFirstMatch ==
  pure.op = "classifyMove" =>
    /\ Cardinality(pure.flags) <= 1
    /\ pure.flags = C6_Expected(pure.evaluation, pure.moveIndex)

C6_Witness ==
  /\ pure.op = "classifyMove"
  /\ pure.evaluation = 300
  /\ pure.flags = {"blunder"}

\* C8: each side's accuracy is 100 x (its moves flagged neither blunder nor
\* mistake) / (its moves), lies in [0,100], and is exactly 100 for a side with
\* no blunder and no mistake, a side without moves included.
C8_SideAccuracy(acc, moves) ==
  /\ acc.den > 0
  /\ 0 <= acc.num /\ acc.num <= 100 * acc.den
  /\ Len(moves) > 0 => acc.num * Len(moves) = 100 * CountAccurate(moves) * acc.den
  /\ CountAccurate(moves) = Len(moves) => acc.num = 100 * acc.den

C8_AccuracyFormula ==
  pure.op = "generateGameSummary" =>
    /\ C8_SideAccuracy(pure.summary.whiteAccuracy, FilterParity(pure.analyses, 1, 0))
    /\ C8_SideAccuracy(pure.summary.blackAccuracy, FilterParity(pure.analyses, 1, 1))


----------------------------------------------------------------------------
(* Claims about GeminiChessAI *)

GameCalls == { c \in CallIds : calls[c].kind = "aiGame" }
PositionCalls == { c \in CallIds : calls[c].kind = "aiPosition" }

\* The position before ply k + 1 of the game a PGN records.
RECURSIVE C7_PositionAfter(_, _)
C7_PositionAfter(pgn, k) ==
  IF k = 0 THEN pgn.start ELSE PlayMove(C7_PositionAfter(pgn, k - 1), pgn.moves[k])

C7_InPlyOrder(pgn, entries) ==
  /\ Len(entries) = Len(pgn.moves)
  /\ \A k \in 1..Len(entries) :
       /\ entries[k].fen = C7_PositionAfter(pgn, k - 1)
       /\ entries[k].move = pgn.moves[k]

\* C7: for every well-formed game of n plies analyzeGame returns n entries,
\* entry k holding the position before ply k and the move of ply k, on the
\* engine path and on the fallback path.
C7_OneEntryPerPly ==
  \A c \in GameCalls :
    calls[c].pgn.ok =>
      /\ calls[c].pc # "failed"
      /\ calls[c].pc = "done" => C7_InPlyOrder(calls[c].pgn, calls[c].out.moves)

C9_Min(a, b) == IF a <= b THEN a ELSE b
C9_Gap(x, y) == IF x >= y THEN x - y ELSE y - x

\* C9: the confidence of every returned suggestion is in [0,1] (0..200 in
\* two-hundredths); on the engine path it is min(1.0, |evaluation(best) -
\* evaluation(second)| / 2.0), and exactly 1.0 when getTopMoves returned fewer
\* than two results.
C9_ConfidenceFormula ==
  \A c \in PositionCalls :
    calls[c].pc = "done" =>
      LET out == calls[c].out
          top == calls[c].topMoves
      IN /\ out.confidence \in 0..200
         /\ out.reasoning = "engine" =>
              out.confidence =
                IF Len(top) < 2 THEN 200
                ELSE C9_Min(200, C9_Gap(calls[c].result.evaluation, top[2].evaluation))

\* An engine-path suggestion from two results whose gap is neither 0 nor
\* capped, and one from fewer than two results.
C9_Witness ==
  \E c \in PositionCalls :
    /\ calls[c].pc = "done"
    /\ calls[c].out.reasoning = "engine"
    /\ Len(calls[c].topMoves) >= 2
    /\ calls[c].out.confidence \notin {0, 200}

\* C10: when the engine of the requested version is unavailable, because an
\* initialization failed at first use or after terminate, analyzePosition
\* returns the fallback: confidence 0.3 and the material balance.
C10_UnavailableGivesFallback ==
  \A c \in PositionCalls :
    (calls[c].pc = "done" /\ calls[c].notReady) =>
      /\ calls[c].out.confidence = 60
      /\ calls[c].out.evaluation = CalculateMaterial(Board(calls[c].fen)) * 100

\* C11: analyzePosition never raises an error to its caller, whatever the FEN
\* and the state of the engine: it returns a suggestion.
C11_NeverRaises ==
  \A c \in PositionCalls : calls[c].pc # "failed"

----------------------------------------------------------------------------
(* Claims about the pool, the client lifecycle and the command stream *)

EngineIds == 1..Len(engines)

C12_NoRetry ==
  \A e \in EngineIds : engines[e].initFailed => engines'[e].inits = engines[e].inits

\* A getEngine call returns in this step.
GetEngineReturns(c) ==
  /\ calls'[c].kind = "getEngine"
  /\ calls'[c].pc = "done"
  /\ c \in CallIds => calls[c].pc # "done"

C12_Surfaced ==
  \A c \in 1..Len(calls') :
    GetEngineReturns(c) => ~engines'[calls'[c].ret].initFailed

\* C12: once the initialization of an engine has failed, getEngine surfaces
\* the failure (it does not return the handle as if it had succeeded) and
\* initialize() is never invoked again on that engine by any later call.
C12_FailureIsCached == [][C12_Surfaced /\ C12_NoRetry]_vars

C13_OnePerVersion ==
  \A e1, e2 \in EngineIds : engines[e1].version = engines[e2].version => e1 = e2

\* A getEngine(v) call that begins in this step finds v registered.
C13_RegisteredHit ==
  \A c \in 1..Len(calls') :
    (c \notin CallIds /\ calls'[c].stage = "getEngine" /\ registry[calls'[c].ver] # 0)
      => /\ engines' = engines
         /\ calls'[c].ret = registry[calls'[c].ver]

\* C13: over any sequence of pool calls at most one StockfishEngine is ever
\* constructed for each version, and getEngine(v) for a registered version
\* returns the existing handle without constructing or initializing anything.
C13_OneEnginePerVersion == []C13_OnePerVersion /\ [][C13_RegisteredHit]_vars

Registered == { registry[v] : v \in Versions } \ {0}

QuitsSent(w) == Cardinality({ k \in 1..Len(workers[w].cmds) : workers[w].cmds[k].op = "quit" })

\* terminate() as the engine and its process see it: not ready, and one more
\* command, `quit`, when the engine has a process.
C14_Terminated(e) ==
  /\ ~engines'[e].isReady
  /\ engines'[e].engine = engines[e].engine
  /\ engines[e].engine # 0 =>
       workers'[engines[e].engine].cmds =
         Append(workers[engines[e].engine].cmds, Cmd("quit"))

C14_TerminateAllStep ==
  CallTerminateAll =>
    /\ registry' = [v \in Versions |-> 0]
    /\ \A e \in Registered : C14_Terminated(e)
    /\ \A e \in EngineIds \ Registered : engines'[e] = engines[e]
    /\ \A w \in 1..Len(workers) :
         (\A e \in Registered : engines[e].engine # w) => workers'[w] = workers[w]
    /\ Registered = {} => /\ engines' = engines
                          /\ workers' = workers
                          /\ registry' = registry

\* C14: terminateAll() calls terminate on every client in the registry and
\* leaves the registry empty; a second call in a row terminates no client,
\* sends no command and leaves the registry empty.
C14_TerminateAllIdempotent == [][C14_TerminateAllStep]_vars

\* Two pool operations, the only engine has a process that got one quit, and
\* the registry is empty: both were terminateAll, one of them terminated the
\* engine and the other found the registry empty.
C14_Witness ==
  /\ ops = 2
  /\ Registered = {}
  /\ Len(engines) = 1
  /\ engines[1].engine # 0
  /\ QuitsSent(engines[1].engine) = 1

CompareCalls == { c \in CallIds : calls[c].kind = "compareVersions" }

\* The last position of version v in a list of versions.
C15_Last(versions, v) ==
  CHOOSE k \in 1..Len(versions) :
    versions[k] = v /\ \A j \in (k + 1)..Len(versions) : versions[j] # v

C15_Sequential(c) ==
  LET f == calls[c]
  IN /\ Len(f.sids) \in {f.i, f.i + 1}
     /\ Len(f.sids) <= Len(f.versions)
     /\ \A k \in 1..Len(f.sids) :
          /\ engines[searches[f.sids[k]].eng].version = f.versions[k]
          /\ k < Len(f.sids) => searches[f.sids[k]].status # "pending"
     /\ (f.stage = "getEngine" /\ f.pc # "done") =>
          /\ Len(f.sids) = f.i
          /\ f.ver = f.versions[f.i + 1]

C15_Mapping(c) ==
  LET f == calls[c]
  IN f.pc = "done" =>
       /\ { r.version : r \in f.results } = { f.versions[k] : k \in 1..Len(f.versions) }
       /\ Cardinality(f.results) = Cardinality({ f.versions[k] : k \in 1..Len(f.versions) })
       /\ \A r \in f.results :
            r.analysis = searches[f.sids[C15_Last(f.versions, r.version)]].result

\* C15: compareVersions takes the versions in list order, one at a time: the
\* engine resolution and the search for a version start only after the search
\* for the version before it has returned, the call never has two searches
\* outstanding, and the mapping returned has one entry per distinct version.
C15_CompareVersionsSequential ==
  \A c \in CompareCalls : C15_Sequential(c) /\ C15_Mapping(c)

\* A comparison of the same version twice returned, the two searches having
\* given different results.
C15_Witness ==
  \E c \in CompareCalls :
    /\ calls[c].pc = "done"
    /\ calls[c].versions = << "17", "17" >>
    /\ searches[calls[c].sids[1]].result # searches[calls[c].sids[2]].result

\* The searches that start in this step.
StartedSearches == (Len(searches) + 1)..Len(searches')

C16_Step ==
  /\ \A sid \in StartedSearches : engines[searches'[sid].eng].isReady
  /\ \A sid \in SearchIds :
       Settles(sid) => EndedByBestmove(sid) \/ EndedByDepth(sid) \/ EndedByTimeout(sid)
  /\ \A e \in EngineIds :
       engines[e].terminated =>
         /\ ~engines'[e].isReady
         /\ engines'[e].inits = engines[e].inits
         /\ \A sid \in StartedSearches : searches'[sid].eng # e

\* C16: a client goes Uninitialized -> Initializing -> Ready -> Searching ->
\* Ready -> Terminated: a search starts only on a ready client, ends only by a
\* bestmove line, the depth limit or the timeout, and a terminated client is
\* never initialized, made ready or searched on again.
C16_Lifecycle == [][C16_Step]_vars

C17_Handshake ==
  << "uci", "setoption name Threads value 4", "setoption name Hash value 256",
     "setoption name Ponder value false", "ucinewgame" >>

SearchesOn(w) == { sid \in SearchIds : searches[sid].worker = w }

C17_Stream(w) ==
  LET cmds == workers[w].cmds
      At(op) == { k \in 1..Len(cmds) : cmds[k].op = op }
  IN /\ Len(cmds) >= Len(C17_Handshake)
     /\ \A k \in 1..Len(cmds) :
          cmds[k].op \in { C17_Handshake[j] : j \in 1..Len(C17_Handshake) }
            <=> (k <= Len(C17_Handshake) /\ cmds[k].op = C17_Handshake[k])
     /\ \A k \in At("position fen") : k + 1 \in At("go depth")
     /\ \A k \in At("go depth") : k - 1 \in At("position fen")
     /\ Cardinality(At("position fen")) = Cardinality(SearchesOn(w))

\* C17: every engine process receives uci, the three option lines and
\* ucinewgame once each, in that order, before any position line; then each
\* search sends one `position fen` line immediately followed by one `go depth`
\* line, and no position line is sent outside a search.
C17_CommandStream == \A w \in 1..Len(workers) : C17_Stream(w)

----------------------------------------------------------------------------
(* Claims about score parsing *)

C18_Sign(x) == IF x > 0 THEN 1 ELSE IF x < 0 THEN -1 ELSE 0
C18_Size(x) == IF x < 0 THEN -x ELSE x

\* The score of a parsed line: its kind and its number.
C18_Kind(p) == p.parts[5].s
C18_Number(p) == p.parts[6].n

\* One parsed line: cp c gives c hundredths of a pawn; mate n gives 10000 - n
\* pawns for n > 0 and -10000 - n pawns for n < 0, with the sign of n.
C18_One(p) ==
  p.op = "parseInfo" =>
    LET n == C18_Number(p)
    IN /\ C18_Kind(p) = "cp" => p.acc.evaluation = n
       /\ (C18_Kind(p) = "mate" /\ n > 0) => p.acc.evaluation = 1000000 - 100 * n
       /\ (C18_Kind(p) = "mate" /\ n < 0) => p.acc.evaluation = -1000000 - 100 * n
       /\ (C18_Kind(p) = "mate" /\ n # 0) => C18_Sign(p.acc.evaluation) = C18_Sign(n)

\* Two parsed lines: the nearer mate of the same sign is the larger in
\* magnitude, and a mate is larger in magnitude than any centipawn score.
C18_Two(p, q) ==
  (p.op = "parseInfo" /\ q.op = "parseInfo" /\ C18_Kind(p) = "mate" /\ C18_Number(p) # 0) =>
    /\ (C18_Kind(q) = "mate" /\ C18_Sign(C18_Number(q)) = C18_Sign(C18_Number(p))
          /\ C18_Size(C18_Number(p)) < C18_Size(C18_Number(q)))
         => C18_Size(p.acc.evaluation) > C18_Size(q.acc.evaluation)
    /\ C18_Kind(q) = "cp" => C18_Size(p.acc.evaluation) > C18_Size(q.acc.evaluation)

\* C18: score parsing.  `score cp c` yields c/100; `score mate n` yields
\* 10000 - n for n > 0 and -10000 - n for n < 0: the sign of n, a larger
\* magnitude for a shorter mate, and more than any centipawn evaluation.
C18_ScoreParsing == [][C18_One(pure') /\ C18_Two(pure, pure') /\ C18_Two(pure', pure)]_vars

\* A mate in two against the side to move was parsed.
C18_Witness ==
  /\ pure.op = "parseInfo"
  /\ pure.acc.mate = << -2 >>
  /\ pure.acc.evaluation = -999800

----------------------------------------------------------------------------
(* Claims about malformed games and terminate *)

C19_EngineLevelFails(c) ==
  /\ ~(calls[c].stage = "analyzeGame" /\ calls[c].pc = "ret")
  /\ calls[c].sids = << >>

C19_CallerGetsEmptyReport(c) ==
  /\ calls[c].pc # "failed"
  /\ calls[c].pc = "done" =>
       /\ calls[c].out.moves = << >>
       /\ calls[c].out.summary.criticalMoments = 0

\* C19: for malformed game notation StockfishEngine.analyzeGame fails (it
\* does not return normally) and issues no search, and
\* GeminiChessAI.analyzeGame turns the failure into the empty report instead
\* of raising.
C19_MalformedGame ==
  \A c \in GameCalls :
    ~calls[c].pgn.ok => C19_EngineLevelFails(c) /\ C19_CallerGetsEmptyReport(c)

\* The fields of a StockfishEngine object.
C20_Client(eng) == [version |-> eng.version, isReady |-> eng.isReady, engine |-> eng.engine]

C20_TerminateStep(e) ==
  CallTerminate(e) =>
    /\ engines[e].engine # 0 =>
         /\ workers'[engines[e].engine].cmds =
              Append(workers[engines[e].engine].cmds, Cmd("quit"))
         /\ ~engines'[e].isReady
    /\ (engines[e].terminated /\ ~engines[e].isReady) =>
         C20_Client(engines'[e]) = C20_Client(engines[e])
    /\ \A d \in EngineIds \ {e} : engines'[d] = engines[d]
    /\ calls' = calls /\ searches' = searches /\ registry' = registry

\* C20: terminate() on an initialized client sends quit and marks the client
\* not ready; a repeated terminate() raises nothing, leaves the client not
\* ready and in the state the first call left it in.
C20_TerminateRepeatable == [][\A e \in EngineIds : C20_TerminateStep(e)]_vars

\* terminate() ran twice on the one initialized client: its process got two
\* quit commands.
C20_Witness ==
  /\ ops = 2
  /\ Len(engines) = 1
  /\ Len(workers) = 1
  /\ engines[1].engine = 1
  /\ ~engines[1].isReady
  /\ QuitsSent(1) = 2

----------------------------------------------------------------------------
(* getTopMoves under an engine that answers for the position it was given  *)

\* The position after 1.f3 e5 2.g4 Qh4#: all pieces on the board (Board gives
\* StartBoard), White to move, and no legal move (Moves gives << >>).
FoolsMate == "2...Qh4#"

TopMovesFens == {"start", FoolsMate}

\* The fen of the last `position fen` command a process received.
LastFen(w) ==
  LET cmds == workers[w].cmds
      at == { k \in 1..Len(cmds) : cmds[k].op = "position fen" }
  IN IF at = {} THEN ""
     ELSE cmds[CHOOSE k \in at : \A j \in at : j <= k].fen

\* What the engine names after `bestmove` for a position: a legal move in
\* coordinate notation, or (none) when the side to move has no legal move.
EngineMoves(fen) ==
  IF Moves(fen) = << >> THEN {"(none)"}
  ELSE { mv \in {"e2e4", "d2d4"} : mv \in Accepted(fen) }

NextTopMoves ==
  \/ \E fen \in TopMovesFens, depth \in PoolDepths, v \in SearchVersions :
        CallAiPosition(fen, depth, v, MaxAiCalls)
  \/ \E c \in 1..MaxAiCalls, ok \in BOOLEAN : ImportSettles(c, ok)
  \/ \E c \in 1..MaxAiCalls : Resume(c)
  \/ \E w \in 1..Len(workers) : \E mv \in EngineMoves(LastFen(w)) :
        EngineLine(w, BestmoveLine(mv))
  \/ \E sid \in 1..Len(searches) : TimerFires(sid)

SpecTopMoves == Init /\ [][NextTopMoves]_vars

\* The searches getTopMoves of call c has issued: all of the call's searches
\* but the primary one.
C21_TopMovesSearches(c) == Len(calls[c].sids) - 1

\* getTopMoves of call c has returned to analyzePosition.
C21_Returned(c) ==
  /\ calls[c].stage = "getTopMoves"
  /\ calls[c].pc \in {"ret", "done"}

\* C21: getTopMoves(fen, n) returns after exactly n searches, all on fen,
\* whatever their results (duplicate, empty), with at most n results.
C21_FixedAttemptCount ==
  \A c \in PositionCalls :
    /\ calls[c].stage = "getTopMoves" =>
         /\ C21_TopMovesSearches(c) <= NumMoves
         /\ Len(calls[c].topMoves) <= NumMoves
         /\ \A k \in 1..Len(calls[c].sids) : searches[calls[c].sids[k]].fen = calls[c].fen
    /\ C21_Returned(c) => C21_TopMovesSearches(c) = NumMoves

----------------------------------------------------------------------------
(* compareVersions(fen, [v]) and GeminiChessAI.analyzePosition(fen, 20, v), *)
(* each on a fresh pool, under a deterministic engine: in answer to its     *)
(* first `go` the engine writes the first `infos` lines of a fixed list and *)
(* then either its bestmove line or nothing until the time limit elapses.   *)

RoundTripMove == "e2e4"

\* Line k of the list: depth k (the last one the depth compareVersions asks
\* for), a mate score on the first line and a centipawn score after it.
ScriptLine(k) ==
  << W("info"), W("depth"), N(IF k = MaxInfo THEN CompareDepth ELSE k),
     W("score"), W(IF k = 1 THEN "mate" ELSE "cp"), N(IF k = 1 THEN 3 ELSE -150),
     W("nodes"), N(100 * k), W("pv"), W(RoundTripMove) >>

Scripts == [op : {"script"}, infos : 0..MaxInfo, end : {"bestmove", "timeout"}]

\* The first search a process was given (0: none yet).
Primary(w) ==
  LET on == { sid \in 1..Len(searches) : searches[sid].worker = w }
  IN IF on = {} THEN 0 ELSE CHOOSE sid \in on : \A other \in on : sid <= other

\* The lines of the list the handler of search q has received.
Consumed(q) ==
  Cardinality({ k \in 1..MaxInfo : ParseInt(ScriptLine(k), 3) <= q.depthReached })

PrimaryPending(w) == Primary(w) # 0 /\ searches[Primary(w)].status = "pending"

ScriptedInfo(w) ==
  /\ PrimaryPending(w)
  /\ Consumed(searches[Primary(w)]) < pure.infos
  /\ EngineLine(w, ScriptLine(Consumed(searches[Primary(w)]) + 1))

ScriptedBestmove(w) ==
  /\ PrimaryPending(w)
  /\ Consumed(searches[Primary(w)]) = pure.infos
  /\ pure.end = "bestmove"
  /\ EngineLine(w, BestmoveLine(RoundTripMove))

ScriptedTimeout(w) ==
  /\ PrimaryPending(w)
  /\ Consumed(searches[Primary(w)]) = pure.infos
  /\ pure.end = "timeout"
  /\ TimerFires(Primary(w))

\* After its first search the process answers every `go` and `stop` it owes
\* an answer to, and the later searches may run out of time.
LaterBestmove(w) ==
  /\ Primary(w) # 0
  /\ ~PrimaryPending(w)
  /\ \E mv \in EngineMoves(LastFen(w)) : EngineLine(w, BestmoveLine(mv))

LaterTimeout(sid) ==
  /\ sid # Primary(searches[sid].worker)
  /\ TimerFires(sid)

InitRoundTrip ==
  /\ registry = [v \in Versions |-> 0]
  /\ engines = <<>>
  /\ workers = <<>>
  /\ searches = <<>>
  /\ calls = <<>>
  /\ ops = 0
  /\ pure \in Scripts

\* A fresh pool serves one call: the first one made on it.
FreshPoolCalls == 1

NextRoundTrip ==
  \/ \E fen \in Fens, v \in Versions : CallCompareVersions(fen, <<v>>, FreshPoolCalls)
  \/ \E fen \in Fens, v \in Versions : CallAiPosition(fen, CompareDepth, v, FreshPoolCalls)
  \/ \E c \in 1..FreshPoolCalls, ok \in BOOLEAN : ImportSettles(c, ok)
  \/ \E c \in 1..FreshPoolCalls : Resume(c)
  \/ \E w \in 1..Len(workers) : ScriptedInfo(w)
  \/ \E w \in 1..Len(workers) : ScriptedBestmove(w)
  \/ \E w \in 1..Len(workers) : ScriptedTimeout(w)
  \/ \E w \in 1..Len(workers) : LaterBestmove(w)
  \/ \E sid \in 1..Len(searches) : LaterTimeout(sid)

SpecRoundTrip == InitRoundTrip /\ [][NextRoundTrip]_vars

\* The accumulator after lines k..n of the list, a handler that reached its
\* depth limit receiving no further line.
RECURSIVE C22_Fold(_, _, _)
C22_Fold(k, n, acc) ==
  IF k > n \/ acc.depthReached >= CompareDepth THEN acc
  ELSE C22_Fold(k + 1, n, ParseInfo(ScriptLine(k), 1, acc))

\* What a search to depth 20 returns under script sc.
C22_Expected(sc) ==
  LET a == C22_Fold(1, sc.infos, NewAccumulator)
  IN [bestMove |-> IF a.depthReached < CompareDepth /\ sc.end = "bestmove"
                     THEN RoundTripMove ELSE "",
      evaluation |-> a.evaluation, depth |-> a.depthReached, nodes |-> a.nodes,
      pv |-> a.pv, mate |-> a.mate]

\* The first search of a call is the request (fen, depth 20) put to a process
\* that has received the handshake and nothing else.
C22_SameRequest(c) ==
  calls[c].sids # << >> =>
    LET q == searches[calls[c].sids[1]]
    IN /\ q.fen = calls[c].fen
       /\ q.depth = CompareDepth
       /\ engines[q.eng].version = calls[c].ver
       /\ SubSeq(workers[q.worker].cmds, 1, Len(HandshakeCmds) + 2) =
            HandshakeCmds \o << PositionCmd(calls[c].fen), GoCmd(CompareDepth) >>

\* C22: on a fresh pool and under the same engine script, the map
\* compareVersions(fen, [v]) returns holds for v the result that the primary
\* search of analyzePosition(fen, 20, v) yields: both are the result of the
\* same request under that script.
C22_RoundTrip ==
  \A c \in CallIds :
    /\ C22_SameRequest(c)
    /\ (calls[c].kind = "compareVersions" /\ calls[c].pc = "done") =>
         calls[c].results =
           { [version |-> calls[c].versions[1], analysis |-> C22_Expected(pure)] }
    /\ (calls[c].kind = "aiPosition" /\ calls[c].stage = "getTopMoves") =>
         calls[c].result = C22_Expected(pure)

\* compareVersions returned a result with a move, a depth and a mate score.
C22_Witness ==
  \E c \in CompareCalls :
    /\ calls[c].pc = "done"
    /\ \E r \in calls[c].results :
         r.analysis.bestMove = RoundTripMove /\ r.analysis.mate = << 3 >>

----------------------------------------------------------------------------
(* Claims about the results of a search *)

\* C23: a search that ends by the depth limit or by the timeout after a
\* progress line with a pv returns the first move of the last pv received as
\* its bestMove, not the initial empty value.
C23_BestMoveFromPv ==
  \A sid \in SearchIds :
    (searches[sid].cause \in {"depth", "timeout"} /\ searches[sid].result.pv # << >>)
      => searches[sid].result.bestMove = searches[sid].result.pv[1]

\* The swing of a move: the evaluation of the position before it against the
\* evaluation of the position it leads to, the latter read from the opponent's
\* side (the engine scores for the side to move) or from the same side.
C24_Swings(before, after) == { before + after, before - after }

\* C24: the flags of ply k in analyzeGame are the classification of the swing
\* of the move played at ply k (the evaluation of the position before it
\* against the evaluation of the position after it), not of the evaluation of
\* the position before it alone.
C24_ClassifiedBySwing ==
  \A c \in GameCalls :
    \A k \in 1..(Len(calls[c].analyses) - 1) :
      LET before == calls[c].analyses[k].analysis[1].evaluation
          after == calls[c].analyses[k + 1].analysis[1].evaluation
      IN \E swing \in C24_Swings(before, after) :
           calls[c].analyses[k].flags = ClassifyMove(swing, k - 1)

----------------------------------------------------------------------------
(* Claims about the fallback *)

\* The first five legal moves chess.moves() lists for a position.
C25_Candidates(fen) == { Moves(fen)[k] : k \in 1..Min(Len(Moves(fen)), 5) }

\* C25: the move of every fallback result is a legal move of the analysed
\* position, one of the first five enumerated, for every valid position,
\* positions without a legal move included.
C25_FallbackMoveIsLegal ==
  \A c \in PositionCalls :
    (calls[c].pc = "done" /\ calls[c].out.confidence = 60 /\ calls[c].out.reasoning # "engine")
      => calls[c].out.move \in C25_Candidates(calls[c].fen)

----------------------------------------------------------------------------
(* Claims about the lines and commands that cross between searches *)

\* A process answers its `go` commands in order, one bestmove line each: the
\* line that arrives while more than one answer is owed answers an earlier
\* `go` than the last one.
C26_AnswersOwnGo(sid) == workers[searches[sid].worker].go = 1

C26_Step ==
  \A sid \in SearchIds :
    (Settles(sid) /\ EndedByBestmove(sid)) => C26_AnswersOwnGo(sid)

\* C26: for searches issued one after another on an engine, the bestmove line
\* that ends a search and gives it its bestMove answers that search's own
\* `go`, never the `stop` of an earlier search.
C26_NoStaleBestmove == [][C26_Step]_vars

\* C27: at most one `stop` is sent per search, whatever lines arrive after
\* the search has returned: a process has received no more stop commands than
\* searches were run on it.
C27_OneStopPerSearch ==
  \A w \in 1..Len(workers) : CountStop(workers[w].cmds) <= Cardinality(SearchesOn(w))

\* The evaluation a `score mate n` event produces, in hundredths of a pawn.
C28_MateEvaluation(n) == IF n > 0 THEN 1000000 - 100 * n ELSE -1000000 - 100 * n

\* C28: a returned result carries a mate value exactly when its evaluation
\* was produced by a `score mate` event: with mate n the evaluation is the one
\* of mate n, and a result whose last score was `score cp` carries no mate.
C28_MateMatchesEvaluation ==
  \A sid \in SearchIds :
    searches[sid].status = "resolved" =>
      LET r == searches[sid].result
      IN /\ r.mate # << >> => r.evaluation = C28_MateEvaluation(r.mate[1])
         /\ r.mate = << >> => Abs(r.evaluation) <= MaxCp

\* C29: no command is sent to an engine process after `quit` has been sent to
\* it: no stop of a pending timeout, no position or go of a later search
\* (a repeated terminate sends quit again, which is not counted).
C29_NothingAfterQuit ==
  \A w \in 1..Len(workers) :
    \A j, k \in 1..Len(workers[w].cmds) :
      (j < k /\ workers[w].cmds[j].op = "quit") => workers[w].cmds[k].op = "quit"

C30_Step ==
  CallTerminateAll => \A w \in 1..Len(workers) : workers'[w].quit

\* C30: when terminateAll() returns, every engine process started so far has
\* been sent `quit`, the processes started by overlapping getEngine calls for
\* one version included: none is left running outside the registry.
C30_TerminateAllQuitsAll == [][C30_Step]_vars

====
